---------------------------- MODULE Spec2Model ----------------------------
(***************************************************************************)
(* A model of the k-combinat partition library: the bump-path row          *)
(* selection of a skew partition, the linked-skew-diagram builder, the     *)
(* self-conjugacy test, the k-boundary, Schur straightening, the raising   *)
(* operator algebra and the Hall-Littlewood vertex operator chain.         *)
(*                                                                         *)
(* Python lists are 0-based and TLA+ sequences 1-based: row and column     *)
(* indices keep the source's 0-based values and Part(p, i) reads p[i].     *)
(***************************************************************************)
EXTENDS Integers, Sequences, FiniteSets, TLC

VARIABLES
    pc,               \* control location of the routine being run
    entry,            \* the routine the caller entered
    sp,               \* the skew partition [outer, inner]
    row_index,        \* loop variable of skew_partition_to_selected_rows / start row
    blocked_rows,     \* rows used up so far (the set bump_path is handed)
    new_blocked_rows, \* bump_path's accumulated set
    cur_row,          \* bump_path's own row_index, reassigned by each piece
    piece,            \* what bump_path_piece returned: [row, is_end]
    selected_rows,    \* what skew_partition_to_selected_rows returned
    returned_rows,    \* what bump_path returned
    input,            \* the arguments of a routine modelled as an operator
    output,           \* the value that routine returned
    composition,      \* HallLittlewoodVertexOperator.composition
    todo,             \* the vertex operators of the caller's expression still to apply
    part_pos,         \* __call__: the parts of reversed(gamma) still to come
    input_,           \* __call__: the element built so far
    calls             \* the parts hl_creation_operator was called with, in order

bumpVars == <<entry, sp, row_index, blocked_rows, new_blocked_rows, cur_row, piece,
              selected_rows, returned_rows>>
pureVars == <<input, output>>
hlVars == <<composition, todo, part_pos, input_, calls>>
vars == <<pc, entry, sp, row_index, blocked_rows, new_blocked_rows, cur_row, piece,
          selected_rows, returned_rows, input, output,
          composition, todo, part_pos, input_, calls>>

(***************************************************************************)
(* Bounds of the model.                                                    *)
(***************************************************************************)
MaxRows == 3
MaxCols == 3

(***************************************************************************)
(* Python values.                                                          *)
(***************************************************************************)
None == -1

Max(a, b) == IF a >= b THEN a ELSE b

Min(a, b) == IF a <= b THEN a ELSE b

SetMax(S) == CHOOSE x \in S : \A y \in S : y <= x

SetMin(S) == CHOOSE x \in S : \A y \in S : x <= y

Range(s) == {s[i] : i \in DOMAIN s}

\* sorted(S) for a set of integers: the increasing list of its members
RECURSIVE Sorted(_)
Sorted(S) == IF S = {} THEN <<>> ELSE <<SetMin(S)>> \o Sorted(S \ {SetMin(S)})

\* list(reversed(s))
Reversed(s) == [i \in 1..Len(s) |-> s[Len(s) + 1 - i]]

is_weakly_decreasing(li) == \A i \in 1..(Len(li) - 1) : li[i] >= li[i + 1]

(***************************************************************************)
(* Partitions and skew partitions (the value types of the Sage library).   *)
(***************************************************************************)
\* p[i] for a 0-based i, the partition extended by zeros
Part(p, i) == IF i >= 0 /\ i < Len(p) THEN p[i + 1] ELSE 0

\* a partition's normal form drops its trailing zeros
RECURSIVE StripZeros(_)
StripZeros(p) ==
    IF p # <<>> /\ p[Len(p)] = 0 THEN StripZeros(SubSeq(p, 1, Len(p) - 1)) ELSE p

IsPartitionList(p) == is_weakly_decreasing(p) /\ \A i \in DOMAIN p : p[i] >= 0

PartitionsInBox(rows, cols) ==
    UNION {{p \in [1..n -> 1..cols] : is_weakly_decreasing(p)} : n \in 0..rows}

Contains(outer, inner) ==
    /\ Len(inner) <= Len(outer)
    /\ \A i \in DOMAIN inner : inner[i] <= outer[i]

SkewPartitionsInBox(rows, cols) ==
    {[outer |-> o, inner |-> i] : o \in PartitionsInBox(rows, cols), i \in PartitionsInBox(rows, cols)}
        \cap {s \in [outer : PartitionsInBox(rows, cols), inner : PartitionsInBox(rows, cols)] :
                Contains(s.outer, s.inner)}

Skew(o, i) == [outer |-> o, inner |-> i]

\* the shapes the repository's tests use
TestShapes ==
    { Skew(<<>>, <<>>), Skew(<<1>>, <<>>), Skew(<<2>>, <<>>), Skew(<<1, 1>>, <<>>),
      Skew(<<3, 2, 1>>, <<1>>), Skew(<<6, 5, 3, 2, 2, 1>>, <<2, 2>>) }

NumRows(s) == Len(s.outer)

Rows(s) == 0..(NumRows(s) - 1)

\* the cell (row, col) lies in the skew shape
InShape(s, row, col) == Part(s.inner, row) <= col /\ col < Part(s.outer, row)

RowIsEmpty(s, row) == Part(s.outer, row) <= Part(s.inner, row)

(***************************************************************************)
(* The cell finders.                                                       *)
(***************************************************************************)
right(s, row) == IF RowIsEmpty(s, row) THEN None ELSE Part(s.outer, row) - 1

left(s, row) == IF RowIsEmpty(s, row) THEN None ELSE Part(s.inner, row)

top(s, col) ==
    IF \E r \in Rows(s) : InShape(s, r, col)
    THEN SetMax({r \in Rows(s) : InShape(s, r, col)})
    ELSE None

bottom(s, col) ==
    IF \E r \in Rows(s) : InShape(s, r, col)
    THEN SetMin({r \in Rows(s) : InShape(s, r, col)})
    ELSE None

(***************************************************************************)
(* bump_path_piece: the body after the two finder calls.                   *)
(***************************************************************************)
\* while row_index3 in blocked_rows: row_index3 += 1
RECURSIVE SkipBlocked(_, _)
SkipBlocked(row_index3, blocked) ==
    IF row_index3 \in blocked THEN SkipBlocked(row_index3 + 1, blocked) ELSE row_index3

\* row_index3 = cell_under3[0]
RowIndex3(s, start_row_index) == top(s, left(s, start_row_index))

bump_path_piece(s, start_row_index, blocked) ==
    LET row_index3 == SkipBlocked(RowIndex3(s, start_row_index), blocked)
        max_row_index == Len(s.outer) - 1
    IN  IF row_index3 > max_row_index
        THEN [row |-> None, is_end |-> TRUE]
        ELSE [row |-> row_index3, is_end |-> FALSE]

NoPiece == [row |-> None, is_end |-> FALSE]

(***************************************************************************)
(* The bump-path machine: skew_partition_to_selected_rows, and bump_path   *)
(* and bump_path_piece entered directly as the tests enter them.           *)
(***************************************************************************)
BumpShapes == SkewPartitionsInBox(MaxRows, MaxCols) \cup TestShapes

BumpIdle ==
    /\ entry = "none"
    /\ sp = Skew(<<>>, <<>>)
    /\ row_index = 0
    /\ blocked_rows = {}
    /\ new_blocked_rows = {}
    /\ cur_row = 0
    /\ piece = NoPiece
    /\ selected_rows = <<>>
    /\ returned_rows = {}

PureIdle ==
    /\ input = <<>>
    /\ output = <<>>

VertexIdle ==
    /\ composition = <<>>
    /\ todo = 0
    /\ part_pos = 0
    /\ input_ = <<>>
    /\ calls = <<>>

InitBump ==
    /\ sp \in BumpShapes
    /\ entry \in {"skew_partition_to_selected_rows", "bump_path", "bump_path_piece"}
    /\ \/ /\ entry = "skew_partition_to_selected_rows"
          /\ row_index = 0
          /\ blocked_rows = {}
          /\ pc = "for_row"
       \/ /\ entry = "bump_path"
          /\ row_index \in Rows(sp)
          /\ blocked_rows \in SUBSET Rows(sp)
          /\ pc = "bump_path"
       \/ /\ entry = "bump_path_piece"
          /\ row_index \in Rows(sp)
          /\ blocked_rows \in SUBSET Rows(sp)
          /\ pc = "bump_path_piece"
    /\ new_blocked_rows = {}
    /\ cur_row = row_index
    /\ piece = NoPiece
    /\ selected_rows = <<>>
    /\ returned_rows = {}
    /\ PureIdle
    /\ VertexIdle

\* for row_index, outer_row in enumerate(sp.outer()): the call of bump_path
ForRowCall ==
    /\ pc = "for_row"
    /\ row_index < Len(sp.outer)
    /\ pc' = "bump_path"
    /\ cur_row' = row_index
    /\ UNCHANGED <<entry, sp, row_index, blocked_rows, new_blocked_rows, piece,
                   selected_rows, returned_rows>>
    /\ UNCHANGED <<pureVars, hlVars>>

\* the loop is exhausted: selected_rows = sorted(all_rows - blocked_rows)
ForRowExit ==
    /\ pc = "for_row"
    /\ row_index >= Len(sp.outer)
    /\ selected_rows' = Sorted(Rows(sp) \ blocked_rows)
    /\ pc' = "done"
    /\ UNCHANGED <<entry, sp, row_index, blocked_rows, new_blocked_rows, cur_row, piece,
                   returned_rows>>
    /\ UNCHANGED <<pureVars, hlVars>>

\* new_blocked_rows = {row_index}
BumpPathEnter ==
    /\ pc = "bump_path"
    /\ new_blocked_rows' = {cur_row}
    /\ pc' = "bump_path_piece"
    /\ UNCHANGED <<entry, sp, row_index, blocked_rows, cur_row, piece,
                   selected_rows, returned_rows>>
    /\ UNCHANGED <<pureVars, hlVars>>

\* bump_path_piece(sp, row_index, blocked_rows); an empty row has no left cell and
\* indexing None raises
BumpPathPieceCall ==
    /\ pc = "bump_path_piece"
    /\ IF left(sp, cur_row) = None
       THEN /\ pc' = "TypeError"
            /\ UNCHANGED piece
       ELSE /\ piece' = bump_path_piece(sp, cur_row, blocked_rows)
            /\ pc' = IF entry = "bump_path_piece" THEN "done" ELSE "while_true"
    /\ UNCHANGED <<entry, sp, row_index, blocked_rows, new_blocked_rows, cur_row,
                   selected_rows, returned_rows>>
    /\ UNCHANGED <<pureVars, hlVars>>

\* row_index, is_end = ...; else: new_blocked_rows.add(row_index)
BumpPathAdd ==
    /\ pc = "while_true"
    /\ ~piece.is_end
    /\ cur_row' = piece.row
    /\ new_blocked_rows' = new_blocked_rows \cup {piece.row}
    /\ pc' = "bump_path_piece"
    /\ UNCHANGED <<entry, sp, row_index, blocked_rows, piece, selected_rows, returned_rows>>
    /\ UNCHANGED <<pureVars, hlVars>>

\* if is_end: break; return new_blocked_rows.  Back in the caller's loop,
\* blocked_rows += new_blocked_rows: Python's set has no +=, the statement raises
BumpPathReturn ==
    /\ pc = "while_true"
    /\ piece.is_end
    /\ cur_row' = piece.row
    /\ IF entry = "bump_path"
       THEN /\ returned_rows' = new_blocked_rows
            /\ pc' = "done"
       ELSE /\ pc' = "TypeError"
            /\ UNCHANGED returned_rows
    /\ UNCHANGED <<entry, sp, row_index, blocked_rows, new_blocked_rows, piece, selected_rows>>
    /\ UNCHANGED <<pureVars, hlVars>>

NextBump ==
    \/ ForRowCall
    \/ ForRowExit
    \/ BumpPathEnter
    \/ BumpPathPieceCall
    \/ BumpPathAdd
    \/ BumpPathReturn

SpecBump == InitBump /\ [][NextBump]_vars

\* the interpreter runs the next statement whenever there is one
FairSpecBump == SpecBump /\ WF_vars(NextBump)

(***************************************************************************)
(* row_col_to_skew_partition.                                              *)
(***************************************************************************)
MaxLen == 3
MaxPart == 3

\* SkewPartition.row_lengths()
row_lengths(s) == [i \in 1..Len(s.outer) |-> Part(s.outer, i - 1) - Part(s.inner, i - 1)]

\* SkewPartition.column_lengths(): the row lengths of the conjugate
column_lengths(s) ==
    [j \in 1..Part(s.outer, 0) |-> Cardinality({r \in Rows(s) : InShape(s, r, j - 1)})]

\* li[c] for a Python index c: a negative c counts from the end
PyIndexOk(li, c) == c < Len(li) /\ c >= -Len(li)

PyPos(li, c) == IF c >= 0 THEN c + 1 ELSE Len(li) + c + 1

\* for c in range(a, b): current_cs[c] += 1; an index out of range raises IndexError
RECURSIVE IncrementRange(_, _, _)
IncrementRange(current_cs, a, b) ==
    IF a >= b THEN [raised |-> FALSE, cs |-> current_cs]
    ELSE IF ~PyIndexOk(current_cs, a) THEN [raised |-> TRUE, cs |-> current_cs]
    ELSE IncrementRange([current_cs EXCEPT ![PyPos(current_cs, a)] = @ + 1], a + 1, b)

\* SkewPartition([outer, inner]): both lists must be partitions, the outer one
\* containing the inner one; the value keeps them without trailing zeros
SkewPartition(outer, inner) ==
    IF /\ IsPartitionList(outer)
       /\ IsPartitionList(inner)
       /\ Contains(StripZeros(outer), StripZeros(inner))
    THEN [status |-> "ok", outer |-> StripZeros(outer), inner |-> StripZeros(inner)]
    ELSE [status |-> "ValueError", outer |-> <<>>, inner |-> <<>>]

Raised(kind) == [status |-> kind, outer |-> <<>>, inner |-> <<>>]

\* the while loop sliding rows into column col_num; st holds outer, inner,
\* current_cs and row_index
RECURSIVE SlideRows(_, _, _, _)
SlideRows(rs, col_num, num_rows_to_slide, st) ==
    IF num_rows_to_slide <= 0 THEN st
    ELSE IF st.row_index > Len(rs) - 1 THEN [st EXCEPT !.status = "ValueError"]
    ELSE LET r == Part(rs, st.row_index)
             cur == IncrementRange(st.current_cs, col_num - r, col_num)
         IN  IF cur.raised THEN [st EXCEPT !.status = "IndexError"]
             ELSE SlideRows(rs, col_num, num_rows_to_slide - 1,
                     [st EXCEPT !.outer = Append(@, col_num),
                                !.inner = Append(@, col_num - r),
                                !.current_cs = cur.cs,
                                !.row_index = @ + 1])

\* a plausible slip: the column counted from 0
ColNum0Based(cs, col_coindex) == Len(cs) - col_coindex - 1

\* col_num = len(cs) - col_coindex, the 1-based index of the column
ColNum(cs, col_coindex) == Len(cs) - col_coindex

\* the for loop over the columns, rightmost first
RECURSIVE ColumnLoop(_, _, _, _)
ColumnLoop(rs, cs, col_coindex, st) ==
    IF col_coindex >= Len(cs) THEN st
    ELSE LET col_length == Reversed(cs)[col_coindex + 1]
             current_col_length == Reversed(st.current_cs)[col_coindex + 1]
             num_rows_to_slide == col_length - current_col_length
             col_num == ColNum(cs, col_coindex)
         IN  IF num_rows_to_slide < 0 THEN [st EXCEPT !.status = "ValueError"]
             ELSE LET st2 == SlideRows(rs, col_num, num_rows_to_slide, st)
                  IN  IF st2.status # "ok" THEN st2
                      ELSE ColumnLoop(rs, cs, col_coindex + 1, st2)

row_col_to_skew_partition(rs, cs) ==
    LET st0 == [status |-> "ok", outer |-> <<>>, inner |-> <<>>,
                current_cs |-> [i \in 1..Len(cs) |-> 0], row_index |-> 0]
        st == ColumnLoop(rs, cs, 0, st0)
    IN  IF st.status # "ok" THEN Raised(st.status)
        ELSE SkewPartition(st.outer, st.inner)

\* the callers' inputs: a pair of partitions, or the row and column lengths of a
\* skew partition
RowColInputs ==
    {[sp |-> Skew(<<>>, <<>>), from_sp |-> FALSE, rs |-> r, cs |-> c] :
        r \in PartitionsInBox(MaxLen, MaxPart), c \in PartitionsInBox(MaxLen, MaxPart)}
    \cup {[sp |-> s, from_sp |-> TRUE, rs |-> row_lengths(s), cs |-> column_lengths(s)] :
        s \in SkewPartitionsInBox(MaxLen, MaxPart)}

InitRowCol ==
    /\ pc = "row_col_to_skew_partition"
    /\ input \in RowColInputs
    /\ output = Raised("none")
    /\ BumpIdle
    /\ VertexIdle

RowColCall ==
    /\ pc = "row_col_to_skew_partition"
    /\ output' = row_col_to_skew_partition(input.rs, input.cs)
    /\ pc' = "done"
    /\ UNCHANGED input
    /\ UNCHANGED <<bumpVars, hlVars>>

NextRowCol == RowColCall

SpecRowCol == InitRowCol /\ [][NextRowCol]_vars

(***************************************************************************)
(* is_symmetric.                                                           *)
(***************************************************************************)
MaxSize == 8

\* the partitions of size at most n with parts at most maxpart
RECURSIVE PartitionsUpTo(_, _)
PartitionsUpTo(n, maxpart) ==
    {<<>>} \cup UNION {{<<k>> \o p : p \in PartitionsUpTo(n - k, k)} : k \in 1..Min(n, maxpart)}

\* Partition.conjugate(): the column lengths of the diagram
conjugate(l) == [j \in 1..Part(l, 0) |-> Cardinality({i \in DOMAIN l : l[i] > j - 1})]

\* l[i] for a Python index i that is in range
PyAt(l, i) == l[PyPos(l, i)]

\* the two nested loops, from the position (j, k); k = None starts the inner loop
RECURSIVE SymmetricLoop(_, _, _)
SymmetricLoop(l, j, k) ==
    IF j >= Len(l) THEN [status |-> "ok", value |-> TRUE]
    ELSE IF k = None THEN SymmetricLoop(l, j, PyAt(l, -j))
    ELSE IF k >= PyAt(l, -j - 1) THEN SymmetricLoop(l, j + 1, None)
    ELSE IF ~PyIndexOk(l, k) THEN [status |-> "IndexError", value |-> FALSE]
    ELSE IF PyAt(l, k) # Len(l) - j THEN [status |-> "ok", value |-> FALSE]
    ELSE SymmetricLoop(l, j, k + 1)

is_symmetric(l) == SymmetricLoop(l, 0, None)

InitSymmetric ==
    /\ pc = "is_symmetric"
    /\ input \in PartitionsUpTo(MaxSize, MaxSize)
    /\ output = [status |-> "none", value |-> FALSE]
    /\ BumpIdle
    /\ VertexIdle

SymmetricCall ==
    /\ pc = "is_symmetric"
    /\ output' = is_symmetric(input)
    /\ pc' = "done"
    /\ UNCHANGED input
    /\ UNCHANGED <<bumpVars, hlVars>>

NextSymmetric == SymmetricCall

SpecSymmetric == InitSymmetric /\ [][NextSymmetric]_vars

(***************************************************************************)
(* kBoundary.                                                              *)
(***************************************************************************)
MaxK == 6

\* Partition.hook_lengths(): row by row, p[i] - (i+1) + conj[j] - (j+1) + 1
hook_lengths(l) ==
    [i \in 1..Len(l) |-> [j \in 1..l[i] |-> l[i] - i + conjugate(l)[j] - j + 1]]

\* a plausible slip: hook lengths of at least k counted as interior
InnerRowLengthAtLeast(row_hook_lengths, k) ==
    Cardinality({x \in DOMAIN row_hook_lengths : row_hook_lengths[x] >= k})

\* inner_row_length = len([x for x in row_hook_lengths if x > k])
InnerRowLength(row_hook_lengths, k) ==
    Cardinality({x \in DOMAIN row_hook_lengths : row_hook_lengths[x] > k})

\* kBoundary.__init__: the outer and inner partitions handed to the skew partition
kBoundary(l, k) ==
    [outer |-> l,
     inner |-> [i \in 1..Len(l) |-> InnerRowLength(hook_lengths(l)[i], k)]]

InitKBoundary ==
    /\ pc = "kBoundary"
    /\ input \in [l : PartitionsInBox(MaxLen, MaxPart), k : 0..MaxK]
    /\ output = Skew(<<>>, <<>>)
    /\ BumpIdle
    /\ VertexIdle

KBoundaryCall ==
    /\ pc = "kBoundary"
    /\ output' = kBoundary(input.l, input.k)
    /\ pc' = "done"
    /\ UNCHANGED input
    /\ UNCHANGED <<bumpVars, hlVars>>

NextKBoundary == KBoundaryCall

SpecKBoundary == InitKBoundary /\ [][NextKBoundary]_vars

(***************************************************************************)
(* straighten.                                                             *)
(***************************************************************************)
GammaLen == 3
GammaLow == 2
GammaHigh == 3

\* sorted(lis): the increasing list of the entries of a list with distinct entries
SortedList(lis) == Sorted(Range(lis))

has_nonnegative_parts(lis) == \A i \in DOMAIN lis : lis[i] >= 0

has_distinct_parts(lis) == Cardinality(Range(lis)) = Len(lis)

\* a plausible slip: the inversions counted instead
number_of_inversions(lis) ==
    Cardinality({ij \in (DOMAIN lis) \X (DOMAIN lis) : ij[1] < ij[2] /\ lis[ij[1]] > lis[ij[2]]})

number_of_noninversions(lis) ==
    Cardinality({ij \in (DOMAIN lis) \X (DOMAIN lis) : ij[1] < ij[2] /\ lis[ij[1]] < lis[ij[2]]})

\* rho = list(range(len(gamma) - 1, -1, -1))
rho(gamma) == [i \in 1..Len(gamma) |-> Len(gamma) - i]

\* a plausible slip: the reversal forgotten
sort_combined_increasing(combined) == SortedList(combined)

\* sort_combined = reversed(sorted(combined))
sort_combined(combined) == Reversed(SortedList(combined))

\* (-1)**n
MinusOneTo(n) == IF n % 2 = 0 THEN 1 ELSE -1

\* s(new_gamma): the Schur basis element of the partition, trailing zeros dropped
SchurMonomial(coeff, new_gamma) == [coeff |-> coeff, index |-> StripZeros(new_gamma)]

\* return 0
ZeroElement == [coeff |-> 0, index |-> <<>>]

straighten(gamma) ==
    LET combined == [i \in 1..Len(gamma) |-> gamma[i] + rho(gamma)[i]]
    IN  IF has_distinct_parts(combined) /\ has_nonnegative_parts(combined)
        THEN LET sign == MinusOneTo(number_of_noninversions(combined))
                 new_gamma == [i \in 1..Len(gamma) |->
                                  sort_combined(combined)[i] - rho(gamma)[i]]
             IN  SchurMonomial(sign, new_gamma)
        ELSE ZeroElement

Gammas == UNION {[1..n -> (-GammaLow)..GammaHigh] : n \in 0..GammaLen}

InitStraighten ==
    /\ pc = "straighten"
    /\ \E g \in Gammas : input = [gamma |-> g, first |-> g]
    /\ output = ZeroElement
    /\ BumpIdle
    /\ VertexIdle

StraightenCall ==
    /\ pc = "straighten"
    /\ output' = straighten(input.gamma)
    /\ pc' = "done"
    /\ UNCHANGED input
    /\ UNCHANGED <<bumpVars, hlVars>>

\* the caller straightens the index of the element it got back
StraightenAgain ==
    /\ pc = "done"
    /\ output.coeff # 0
    /\ input' = [input EXCEPT !.gamma = output.index]
    /\ output' = straighten(output.index)
    /\ pc' = "done_again"
    /\ UNCHANGED <<bumpVars, hlVars>>

NextStraighten == StraightenCall \/ StraightenAgain

SpecStraighten == InitStraighten /\ [][NextStraighten]_vars

(***************************************************************************)
(* The raising operator algebra.  A coefficient of QQ['t'] is the list of  *)
(* its coefficients, lowest degree first, without trailing zeros; an       *)
(* element is its monomial_coefficients(): a function from the indices of  *)
(* its support to their non-zero coefficients.                             *)
(***************************************************************************)
IndexLen == 2
StairN == 3

PolyCoeff(f, d) == IF d >= 1 /\ d <= Len(f) THEN f[d] ELSE 0

PolyAdd(f, g) == StripZeros([d \in 1..Max(Len(f), Len(g)) |-> PolyCoeff(f, d) + PolyCoeff(g, d)])

RECURSIVE SumTo(_, _, _, _)
SumTo(f, g, d, e) ==
    IF e < 1 THEN 0 ELSE PolyCoeff(f, e) * PolyCoeff(g, d + 1 - e) + SumTo(f, g, d, e - 1)

PolyMul(f, g) ==
    IF f = <<>> \/ g = <<>> THEN <<>>
    ELSE StripZeros([d \in 1..(Len(f) + Len(g) - 1) |-> SumTo(f, g, d, d)])

PolyOne == <<1>>

\* -t
PolyMinusT == <<0, -1>>

\* a plausible slip: zip() of the two indices without the padding
index_mul_unpadded(index1, index2) ==
    [i \in 1..Min(Len(index1), Len(index2)) |-> index1[i] + index2[i]]

\* _mul_.index_mul: pad the shorter index with zeros, add entry by entry
index_mul(index1, index2) ==
    LET max_len == Max(Len(index1), Len(index2))
    IN  [i \in 1..max_len |-> Part(index1, i - 1) + Part(index2, i - 1)]

\* ROA(index): the basis element of an index
Generator(index) == (index :> PolyOne)

\* R.one()
RaisingOne == Generator(<<>>)

\* the sum of coeff1 * coeff2 over the pairs of indices in pairs
RECURSIVE SumOfProducts(_, _, _)
SumOfProducts(x, y, pairs) ==
    IF pairs = {} THEN <<>>
    ELSE LET pr == CHOOSE q \in pairs : TRUE
         IN  PolyAdd(PolyMul(x[pr[1]], y[pr[2]]), SumOfProducts(x, y, pairs \ {pr}))

\* Element._mul_: every pair of terms multiplied, the products summed by index
ElementMul(x, y) ==
    LET pairs == (DOMAIN x) \X (DOMAIN y)
        coeff(k) == SumOfProducts(x, y, {q \in pairs : index_mul(q[1], q[2]) = k})
        support == {k \in {index_mul(q[1], q[2]) : q \in pairs} : coeff(k) # <<>>}
    IN  [k \in support |-> coeff(k)]

\* ij_to_seq: +1 at position i, -1 at position j
ij_to_seq(ij) ==
    [c \in 1..(Max(ij[1], ij[2]) + 1) |->
        IF c - 1 = ij[2] THEN -1 ELSE IF c - 1 = ij[1] THEN 1 ELSE 0]

\* 1 - t*R(seq)
CatalanFactor(seq) == (<<>> :> PolyOne) @@ (seq :> PolyMinusT)

\* prod: reduce(R.Element._mul_, iterable, R.one())
RECURSIVE prod(_)
prod(factors) ==
    IF factors = <<>> THEN RaisingOne
    ELSE ElementMul(prod(SubSeq(factors, 1, Len(factors) - 1)), factors[Len(factors)])

\* the staircase {(i, j) : 0 <= i < j < n}
Staircase(n) == {ij \in (0..(n - 1)) \X (0..(n - 1)) : ij[1] < ij[2]}

\* RI.complement(ri, n)
complement(ri, n) == Staircase(n) \ ri

\* the lists that enumerate a set once each
Enumerations(S) ==
    {q \in [1..Cardinality(S) -> S] : \A i, j \in 1..Cardinality(S) : i # j => q[i] # q[j]}

\* op = prod([1 - t*R(seq) for seq in ri_complement_seq])
CatalanOperator(ri_complement) ==
    prod([i \in 1..Len(ri_complement) |-> CatalanFactor(ij_to_seq(ri_complement[i]))])

\* the entries an index of a Catalan generator has
IndexEntries == {-1, 0, 1}

Indices == UNION {[1..n -> IndexEntries] : n \in 0..IndexLen}

NoProducts == [ab |-> <<>>, ba |-> <<>>, ab_c |-> <<>>, a_bc |-> <<>>, op |-> <<>>]

NoTriple == [a |-> <<>>, b |-> <<>>, c |-> <<>>]

InitRaising ==
    /\ \/ /\ pc = "mul"
          /\ \E a, b, c \in Indices :
                input = [a |-> a, b |-> b, c |-> c, n |-> 0, ri |-> {}, order |-> <<>>]
       \/ /\ pc = "catalan_operator"
          /\ \E n \in 0..StairN : \E ri \in SUBSET Staircase(n) :
                \E order \in Enumerations(complement(ri, n)) :
                    input = [a |-> <<>>, b |-> <<>>, c |-> <<>>, n |-> n, ri |-> ri, order |-> order]
    /\ output = NoProducts
    /\ BumpIdle
    /\ VertexIdle

\* R(a) * R(b), R(b) * R(a), (R(a) * R(b)) * R(c) and R(a) * (R(b) * R(c))
MulCall ==
    /\ pc = "mul"
    /\ LET Ra == Generator(input.a)
           Rb == Generator(input.b)
           Rc == Generator(input.c)
       IN  output' = [NoProducts EXCEPT
                        !.ab = ElementMul(Ra, Rb),
                        !.ba = ElementMul(Rb, Ra),
                        !.ab_c = ElementMul(ElementMul(Ra, Rb), Rc),
                        !.a_bc = ElementMul(Ra, ElementMul(Rb, Rc))]
    /\ pc' = "done"
    /\ UNCHANGED input
    /\ UNCHANGED <<bumpVars, hlVars>>

\* the operator product of indexed_root_ideal_to_catalan_function, the complement
\* enumerated in the order the caller's complement list has
CatalanOperatorCall ==
    /\ pc = "catalan_operator"
    /\ output' = [NoProducts EXCEPT !.op = CatalanOperator(input.order)]
    /\ pc' = "done_operator"
    /\ UNCHANGED input
    /\ UNCHANGED <<bumpVars, hlVars>>

NextRaising == MulCall \/ CatalanOperatorCall

SpecRaising == InitRaising /\ [][NextRaising]_vars

(***************************************************************************)
(* HallLittlewoodVertexOperator.  The creation operator belongs to the     *)
(* symmetric-function library: an element is kept as the formal term       *)
(* H_p1(H_p2(...(one))), the list of the parts applied to one, outermost   *)
(* first, so that two elements are equal only if built by the same calls.  *)
(***************************************************************************)
PartLen == 2
PartHigh == 1

\* input_.hl_creation_operator([part])
hl_creation_operator(element, nu) == nu \o element

\* composition in NN
InNN(arg) == arg.kind = "int" /\ arg.int \in Nat

IntArg(k) == [kind |-> "int", int |-> k, list |-> <<>>]

ListArg(l) == [kind |-> "list", int |-> 0, list |-> l]

Parts == (-1)..PartHigh

PartLists == UNION {[1..n -> Parts] : n \in 0..PartLen}

\* the caller's expressions: H(gamma)(x), H(g1)(H(g2)(...H(gm)(x)...)) and
\* H(a)(H(b)(x)), each the list of its vertex operators' arguments, outermost first
Expressions ==
    {<<IntArg(k)>> : k \in Parts}
    \cup {<<ListArg(l)>> : l \in PartLists}
    \cup {[i \in 1..Len(l) |-> IntArg(l[i])] : l \in PartLists \ {<<>>}}
    \cup {<<ListArg(a), ListArg(b)>> : a \in PartLists, b \in PartLists}

InitVertex ==
    /\ pc = "H"
    /\ \E e \in Expressions : \E x \in {<<>>, <<1>>} : input = [expression |-> e, x |-> x]
    /\ output = <<>>
    /\ composition = <<>>
    /\ todo = Len(input.expression)
    /\ part_pos = 0
    /\ input_ = input.x
    /\ calls = <<>>
    /\ BumpIdle

\* a plausible slip: for part in gamma, the reversal forgotten
NextPartForward(gamma, parts_left) == gamma[Len(gamma) + 1 - parts_left]

\* the part reversed(gamma) yields when parts_left parts are still to come
NextPart(gamma, parts_left) == gamma[parts_left]

\* __init__: an integer of NN stands for the one-part list, a list is kept, and
\* anything else is a bad composition
VertexInit ==
    /\ pc = "H"
    /\ LET arg == input.expression[todo]
       IN  IF InNN(arg)
           THEN /\ composition' = <<arg.int>>
                /\ part_pos' = 1
                /\ pc' = "call"
           ELSE IF arg.kind = "list"
           THEN /\ composition' = arg.list
                /\ part_pos' = Len(arg.list)
                /\ pc' = "call"
           ELSE /\ pc' = "ValueError"
                /\ UNCHANGED <<composition, part_pos>>
    /\ UNCHANGED <<todo, input_, calls>>
    /\ UNCHANGED <<bumpVars, pureVars>>

\* __call__: for part in reversed(gamma): input_ = input_.hl_creation_operator([part])
VertexCreate ==
    /\ pc = "call"
    /\ part_pos >= 1
    /\ input_' = hl_creation_operator(input_, <<NextPart(composition, part_pos)>>)
    /\ calls' = Append(calls, NextPart(composition, part_pos))
    /\ part_pos' = part_pos - 1
    /\ UNCHANGED <<pc, composition, todo>>
    /\ UNCHANGED <<bumpVars, pureVars>>

\* __call__: return input_, to the next vertex operator of the expression
VertexReturn ==
    /\ pc = "call"
    /\ part_pos = 0
    /\ todo' = todo - 1
    /\ pc' = IF todo' = 0 THEN "done" ELSE "H"
    /\ UNCHANGED <<composition, part_pos, input_, calls>>
    /\ UNCHANGED <<bumpVars, pureVars>>

NextVertex == VertexInit \/ VertexCreate \/ VertexReturn

SpecVertex == InitVertex /\ [][NextVertex]_vars

(***************************************************************************)
(* n_to_number_of_linked_partition_self_pairs.                             *)
(***************************************************************************)
MaxN == 9

\* Partitions(n): the partitions of n with parts at most maxpart, as Sage lists
\* them (largest first part first)
RECURSIVE Partitions(_, _)
Partitions(n, maxpart) ==
    IF n = 0 THEN << <<>> >>
    ELSE IF maxpart < 1 THEN <<>>
    ELSE (IF maxpart <= n
          THEN LET rest == Partitions(n - maxpart, maxpart)
               IN  [i \in 1..Len(rest) |-> <<maxpart>> \o rest[i]]
          ELSE <<>>)
         \o Partitions(n, maxpart - 1)

InitSelfPairs ==
    /\ pc = "for_p"
    /\ \E n \in 0..MaxN : input = [n |-> n, ps |-> Partitions(n, n)]
    /\ output = [count |-> 0, caught |-> {}]
    /\ BumpIdle
    /\ VertexIdle

\* try: row_col_to_skew_partition(p, p) ... else: count += 1
SelfPairsCount ==
    /\ pc = "for_p"
    /\ input.ps # <<>>
    /\ row_col_to_skew_partition(Head(input.ps), Head(input.ps)).status = "ok"
    /\ output' = [output EXCEPT !.count = @ + 1]
    /\ input' = [input EXCEPT !.ps = Tail(@)]
    /\ UNCHANGED pc
    /\ UNCHANGED <<bumpVars, hlVars>>

\* except: pass -- whatever was raised; caught keeps the kinds of exception
\* the bare except clause has handled
SelfPairsExcept ==
    /\ pc = "for_p"
    /\ input.ps # <<>>
    /\ LET r == row_col_to_skew_partition(Head(input.ps), Head(input.ps))
       IN  /\ r.status # "ok"
           /\ output' = [output EXCEPT !.caught = @ \cup {r.status}]
    /\ input' = [input EXCEPT !.ps = Tail(@)]
    /\ UNCHANGED pc
    /\ UNCHANGED <<bumpVars, hlVars>>

\* return count
SelfPairsReturn ==
    /\ pc = "for_p"
    /\ input.ps = <<>>
    /\ pc' = "done"
    /\ UNCHANGED pureVars
    /\ UNCHANGED <<bumpVars, hlVars>>

NextSelfPairs == SelfPairsCount \/ SelfPairsExcept \/ SelfPairsReturn

SpecSelfPairs == InitSelfPairs /\ [][NextSelfPairs]_vars

(***************************************************************************)
(* boundary and k_rim.                                                     *)
(***************************************************************************)
\* a plausible slip: the run taken up to and including stop_x
horizontal_piece_inclusive(start, bdy) ==
    IF bdy = <<>> THEN <<start>>
    ELSE LET stop_x == bdy[Len(bdy)][1]
         IN  [i \in 1..Max(stop_x + 1 - start[1], 0) |-> <<stop_x + 1 - i, start[2]>>]

\* horizontal_piece: the points (x, start_y) for x in range(start_x, stop_x),
\* reversed; the start point alone while bdy is empty
horizontal_piece(start, bdy) ==
    IF bdy = <<>> THEN <<start>>
    ELSE LET stop_x == bdy[Len(bdy)][1]
         IN  [i \in 1..Max(stop_x - start[1], 0) |-> <<stop_x - i, start[2]>>]

\* for i, part in enumerate(ptn): the piece at the row's level, then the corner
RECURSIVE BoundaryLoop(_, _, _)
BoundaryLoop(ptn, i, bdy) ==
    IF i >= Len(ptn) THEN bdy
    ELSE LET x == Part(ptn, i)
             y == i + 1
         IN  BoundaryLoop(ptn, i + 1,
                Append(bdy \o horizontal_piece(<<x, y - 1>>, bdy), <<x, y>>))

boundary(ptn) ==
    LET bdy == BoundaryLoop(ptn, 0, <<>>)
    IN  bdy \o horizontal_piece(<<0, Len(ptn)>>, bdy)

\* Partition.k_interior(k): the cells of hook length greater than k
k_interior(ptn, k) == StripZeros(kBoundary(ptn, k).inner)

\* [(0, y) for y in range(interior_top_left_y + 1, len(ptn) + 1)]
v_piece(ptn, interior_top_left_y) ==
    [i \in 1..Max(Len(ptn) - interior_top_left_y, 0) |-> <<0, interior_top_left_y + i>>]

\* [(x, 0) for x in range(ptn_bottom_right_x, interior_bottom_right_x, -1)]
h_piece(ptn_bottom_right_x, interior_bottom_right_x) ==
    [i \in 1..Max(ptn_bottom_right_x - interior_bottom_right_x, 0) |->
        <<ptn_bottom_right_x + 1 - i, 0>>]

k_rim(ptn, k) ==
    LET interior_rim == boundary(k_interior(ptn, k))
        interior_top_left_y == interior_rim[Len(interior_rim)][2]
        interior_bottom_right_x == interior_rim[1][1]
        ptn_bottom_right_x == IF ptn # <<>> THEN ptn[1] ELSE 0
    IN  h_piece(ptn_bottom_right_x, interior_bottom_right_x)
            \o interior_rim
            \o v_piece(ptn, interior_top_left_y)

InitRim ==
    /\ pc \in {"boundary", "k_rim"}
    /\ input \in [ptn : PartitionsInBox(MaxLen, MaxPart), k : 0..MaxK]
    /\ pc = "boundary" => input.k = 0
    /\ output = <<>>
    /\ BumpIdle
    /\ VertexIdle

BoundaryCall ==
    /\ pc = "boundary"
    /\ output' = boundary(input.ptn)
    /\ pc' = "done_boundary"
    /\ UNCHANGED input
    /\ UNCHANGED <<bumpVars, hlVars>>

KRimCall ==
    /\ pc = "k_rim"
    /\ output' = k_rim(input.ptn, input.k)
    /\ pc' = "done_k_rim"
    /\ UNCHANGED input
    /\ UNCHANGED <<bumpVars, hlVars>>

NextRim == BoundaryCall \/ KRimCall

SpecRim == InitRim /\ [][NextRim]_vars

(***************************************************************************)
(* The k-irreducible partitions.                                           *)
(***************************************************************************)
MaxIrrK == 5

\* k_rectangle_dimension_list(k): the pairs (k-i+1, i)
k_rectangle_dimension_list(k) == [i \in 1..k |-> <<k - i + 1, i>>]

\* has_rectangle(ptn, h, w): h or more rows of length exactly w
has_rectangle(ptn, h, w) == Cardinality({r \in DOMAIN ptn : ptn[r] = w}) >= h

has_k_rectangle(ptn, k) ==
    \E d \in Range(k_rectangle_dimension_list(k)) : has_rectangle(ptn, d[1], d[2])

is_k_bounded(ptn, k) ==
    (IF ptn = <<>> THEN 0 ELSE SetMax(Range(ptn))) <= k

\* defined for k-bounded partitions only (the source asserts is_k_bounded first)
is_k_reducible(ptn, k) == has_k_rectangle(ptn, k)

is_k_irreducible(ptn, k) == ~is_k_reducible(ptn, k)

\* a plausible slip: range(0, i) in place of range(0, i+1)
LastNumRowsExclusive(i) == i - 1

\* for num_rows in range(0, i+1): the last value of num_rows
LastNumRows(i) == i

\* [k-i]*num_rows
Repeat(x, n) == [j \in 1..n |-> x]

InitIrreducible ==
    /\ pc = "for_i"
    /\ input \in 1..MaxIrrK
    /\ output = [i |-> 1, k_irr_ptns |-> << <<>> >>, new_k_irr_ptns |-> <<>>,
                 ptn |-> 1, num_rows |-> 0]
    /\ BumpIdle
    /\ VertexIdle

\* for i in range(1, k): new_k_irr_ptns = []; the first ptn and num_rows
IrreducibleForI ==
    /\ pc = "for_i"
    /\ output.i < input
    /\ output' = [output EXCEPT !.new_k_irr_ptns = <<>>, !.ptn = 1, !.num_rows = 0]
    /\ pc' = "for_ptn"
    /\ UNCHANGED input
    /\ UNCHANGED <<bumpVars, hlVars>>

\* new_ptn = ptn + [k-i]*num_rows; new_k_irr_ptns.append(new_ptn); the next
\* num_rows, or the next ptn when num_rows is exhausted
IrreducibleAppend ==
    /\ pc = "for_ptn"
    /\ output.ptn <= Len(output.k_irr_ptns)
    /\ output.num_rows <= LastNumRows(output.i)
    /\ LET new_ptn == output.k_irr_ptns[output.ptn]
                        \o Repeat(input - output.i, output.num_rows)
           last == output.num_rows >= LastNumRows(output.i)
       IN  output' = [output EXCEPT !.new_k_irr_ptns = Append(@, new_ptn),
                                    !.num_rows = IF last THEN 0 ELSE @ + 1,
                                    !.ptn = IF last THEN @ + 1 ELSE @]
    /\ UNCHANGED <<pc, input>>
    /\ UNCHANGED <<bumpVars, hlVars>>

\* k_irr_ptns = new_k_irr_ptns, and the next i
IrreducibleEndI ==
    /\ pc = "for_ptn"
    /\ \/ output.ptn > Len(output.k_irr_ptns)
       \/ output.num_rows > LastNumRows(output.i)
    /\ output' = [output EXCEPT !.k_irr_ptns = output.new_k_irr_ptns, !.i = @ + 1]
    /\ pc' = "for_i"
    /\ UNCHANGED input
    /\ UNCHANGED <<bumpVars, hlVars>>

\* return k_irr_ptns
IrreducibleReturn ==
    /\ pc = "for_i"
    /\ output.i >= input
    /\ pc' = "done"
    /\ UNCHANGED pureVars
    /\ UNCHANGED <<bumpVars, hlVars>>

NextIrreducible ==
    IrreducibleForI \/ IrreducibleAppend \/ IrreducibleEndI \/ IrreducibleReturn

SpecIrreducible == InitIrreducible /\ [][NextIrreducible]_vars

(***************************************************************************)
(* indexed_root_ideal_to_catalan_function.  An element of the symmetric    *)
(* function basis is its monomial_coefficients(): a function from          *)
(* partitions to non-zero coefficients of QQ['t'].                         *)
(***************************************************************************)
\* list(ri_complement): the pairs of the complement in the order they come
RECURSIVE AsList(_)
AsList(S) ==
    IF S = {} THEN <<>>
    ELSE LET x == CHOOSE y \in S : TRUE IN <<x>> \o AsList(S \ {x})

\* raise_func on a list or Partition: pad both with zeros, add entry by entry
raise_func(seq, operand) ==
    [i \in 1..Max(Len(seq), Len(operand)) |-> Part(operand, i - 1) + Part(seq, i - 1)]

\* parent_basis(out_composition) for a list that is a partition
BasisElement(p) == (StripZeros(p) :> PolyOne)

\* sum(coeff * mon ...): the coefficients of the terms in seqs added up
RECURSIVE SumCoeffs(_, _)
SumCoeffs(op, seqs) ==
    IF seqs = {} THEN <<>>
    ELSE LET seq == CHOOSE q \in seqs : TRUE
         IN  PolyAdd(op[seq], SumCoeffs(op, seqs \ {seq}))

\* Element.__call__ on a basis element of coefficient 1: every term raises the
\* element's partition and hands the raised list to parent_basis, which makes a
\* basis element of a partition and raises on any other list
ElementCall(op, ptn) ==
    IF \E seq \in DOMAIN op : ~IsPartitionList(raise_func(seq, ptn))
    THEN [status |-> "raised", value |-> <<>>]
    ELSE LET key(seq) == StripZeros(raise_func(seq, ptn))
             coeff(p) == SumCoeffs(op, {seq \in DOMAIN op : key(seq) = p})
             support == {p \in {key(seq) : seq \in DOMAIN op} : coeff(p) # <<>>}
         IN  [status |-> "ok", value |-> [p \in support |-> coeff(p)]]

\* the callers' indices: partitions of length n, zeros allowed, so that hl(index)
\* is a basis element
CatalanIndices(n) == {p \in [1..n -> 0..MaxPart] : is_weakly_decreasing(p)}

InitCatalan ==
    /\ pc = "catalan_function"
    /\ \E n \in 0..StairN : \E ri \in SUBSET Staircase(n) : \E index \in CatalanIndices(n) :
            input = [ri |-> ri, index |-> index]
    /\ output = [op |-> <<>>, cat_func |-> <<>>]
    /\ BumpIdle
    /\ VertexIdle

\* n = len(index) ... op = prod([1 - t*R(seq) for seq in ri_complement_seq])
CatalanBuildOperator ==
    /\ pc = "catalan_function"
    /\ LET n == Len(input.index)
           ri_complement == AsList(complement(input.ri, n))
       IN  output' = [output EXCEPT !.op = CatalanOperator(ri_complement)]
    /\ pc' = "apply"
    /\ UNCHANGED input
    /\ UNCHANGED <<bumpVars, hlVars>>

\* cat_func = op(hl(index)); return cat_func
CatalanApplyOperator ==
    /\ pc = "apply"
    /\ LET called == ElementCall(output.op, StripZeros(input.index))
       IN  /\ output' = [output EXCEPT !.cat_func = called.value]
           /\ pc' = IF called.status = "ok" THEN "done_catalan" ELSE "raised"
    /\ UNCHANGED input
    /\ UNCHANGED <<bumpVars, hlVars>>

NextCatalan == CatalanBuildOperator \/ CatalanApplyOperator

SpecCatalan == InitCatalan /\ [][NextCatalan]_vars

(***************************************************************************)
(* Claims about the bump-path machine.                                     *)
(***************************************************************************)
\* what the repository's tests expect of skew_partition_to_selected_rows
TestSelectedRows(s) ==
    CASE s = Skew(<<>>, <<>>) -> <<>>
      [] s = Skew(<<1>>, <<>>) -> <<0>>
      [] s = Skew(<<3, 2, 1>>, <<1>>) -> <<0, 1>>
      [] s = Skew(<<6, 5, 3, 2, 2, 1>>, <<2, 2>>) -> <<0, 1, 2, 5>>
      [] OTHER -> <<>>

SelectedRowsTestShapes ==
    { Skew(<<>>, <<>>), Skew(<<1>>, <<>>), Skew(<<3, 2, 1>>, <<1>>),
      Skew(<<6, 5, 3, 2, 2, 1>>, <<2, 2>>) }

\* C1: skew_partition_to_selected_rows(sp) returns the increasing list of the rows
\* that start a bump path; on the shapes of the tests it returns [], [0], [0,1]
\* and [0,1,2,5].
C1_SelectedRowsReturned ==
    (entry = "skew_partition_to_selected_rows" /\ sp \in SelectedRowsTestShapes)
        ~> (pc = "done" /\ selected_rows = TestSelectedRows(sp))

\* C2: bump_path(sp, r, B) with r not in B returns a set that contains r, is
\* disjoint from B and whose other members are row indices greater than r; on
\* the tests' inputs it returns {0,2}, {1,4} and {2}.
C2_BumpPathReturned ==
    (/\ entry = "bump_path"
     /\ row_index \notin blocked_rows
     /\ \A r \in Rows(sp) : ~RowIsEmpty(sp, r))
        ~> (/\ pc = "done"
            /\ row_index \in returned_rows
            /\ returned_rows \cap blocked_rows = {}
            /\ \A x \in returned_rows \ {row_index} : x \in Rows(sp) /\ x > row_index
            /\ (sp = Skew(<<3, 2, 1>>, <<1>>) /\ row_index = 0 /\ blocked_rows = {}
                    => returned_rows = {0, 2})
            /\ (sp = Skew(<<6, 5, 3, 2, 2, 1>>, <<2, 2>>) /\ row_index = 1
                    /\ blocked_rows = {0, 3} => returned_rows = {1, 4})
            /\ (sp = Skew(<<6, 5, 3, 2, 2, 1>>, <<2, 2>>) /\ row_index = 2
                    /\ blocked_rows = {0, 1, 3, 4} => returned_rows = {2}))

(***************************************************************************)
(* Claims about row_col_to_skew_partition.                                 *)
(***************************************************************************)
RowColReturned == pc = "done" /\ entry = "none" /\ output.status = "ok"

OutputSkew == Skew(output.outer, output.inner)

\* C3: round trip, for every skew partition whose row lengths and column
\* lengths are weakly decreasing, row_col_to_skew_partition of those lengths
\* returns without error a skew partition equal to it.
C3_RoundTripAll ==
    (/\ pc = "done"
     /\ input.from_sp
     /\ is_weakly_decreasing(input.rs)
     /\ is_weakly_decreasing(input.cs))
        => (output.status = "ok" /\ OutputSkew = input.sp)

\* C3 as amended: the round trip holds for every such skew partition that has a
\* cell, and for [[],[]]; for a shape without cells the call returns [[],[]].
HasCells(s) == \E r \in Rows(s) : ~RowIsEmpty(s, r)

C3_RoundTrip ==
    (/\ pc = "done"
     /\ input.from_sp
     /\ is_weakly_decreasing(input.rs)
     /\ is_weakly_decreasing(input.cs))
        => /\ output.status = "ok"
           /\ OutputSkew = (IF HasCells(input.sp) THEN input.sp ELSE Skew(<<>>, <<>>))

C3_Witness ==
    /\ pc = "done"
    /\ input.from_sp
    /\ is_weakly_decreasing(input.rs)
    /\ is_weakly_decreasing(input.cs)
    /\ Len(input.sp.outer) >= 2
    /\ input.sp.inner # <<>>
    /\ HasCells(input.sp)
    /\ output.status = "ok"
    /\ OutputSkew = input.sp

\* C4: a call that returns gives a valid skew partition whose row lengths are rs
\* (every row used) and whose column lengths are cs; every other call fails with
\* the invalid-shape error.
C4_ExactLengths ==
    (pc = "done" /\ ~input.from_sp)
        => IF output.status = "ok"
           THEN /\ IsPartitionList(output.outer)
                /\ IsPartitionList(output.inner)
                /\ Contains(output.outer, output.inner)
                /\ row_lengths(OutputSkew) = input.rs
                /\ column_lengths(OutputSkew) = input.cs
           ELSE output.status = "ValueError"

(***************************************************************************)
(* Claims about is_symmetric.                                              *)
(***************************************************************************)
\* C5: for every partition of size at most 8, is_symmetric returns true exactly
\* when the partition equals its conjugate, and never fails with an index error.
C5_IsSymmetric ==
    pc = "done" => (output.status = "ok" /\ output.value = (conjugate(input) = input))

(***************************************************************************)
(* Claims about kBoundary.                                                 *)
(***************************************************************************)
\* the hook length of the cell (row i, column j), both 1-based: the cells to its
\* right, the cells below it, and itself
HookOfCell(l, i, j) ==
    (l[i] - j) + Cardinality({r \in DOMAIN l : r > i /\ l[r] >= j}) + 1

KBoundaryShape ==
    /\ output.outer = input.l
    /\ Len(output.inner) = Len(input.l)
    /\ \A i \in DOMAIN input.l :
          output.inner[i] = Cardinality({j \in 1..input.l[i] : HookOfCell(input.l, i, j) > input.k})
    /\ (input.k = 0 => output.inner = input.l)

InnerIsEmpty == \A i \in DOMAIN output.inner : output.inner[i] = 0

\* C6: the k-boundary has outer partition l and inner[row] = the number of cells
\* of the row with hook length > k; the inner partition is l when k = 0 and is
\* empty when k >= max(l).
C6_KBoundaryMaxPart ==
    pc = "done" =>
        /\ KBoundaryShape
        /\ (input.l # <<>> /\ input.k >= input.l[1] => InnerIsEmpty)

\* C6 as amended: the inner partition is empty when k is at least the largest
\* hook length, l[0] + len(l) - 1.
C6_KBoundary ==
    pc = "done" =>
        /\ KBoundaryShape
        /\ (input.l # <<>> /\ input.k >= input.l[1] + Len(input.l) - 1 => InnerIsEmpty)

C6_Witness ==
    /\ pc = "done"
    /\ Len(input.l) >= 2
    /\ input.k = input.l[1] + Len(input.l) - 1
    /\ InnerIsEmpty
    /\ output.outer = input.l

(***************************************************************************)
(* Claims about straighten.                                                *)
(***************************************************************************)
\* gamma + rho, entry by entry
Combined(gamma) == [i \in 1..Len(gamma) |-> gamma[i] + (Len(gamma) - i)]

\* the index padded with zeros to the length n
PadTo(index, n) == [i \in 1..n |-> Part(index, i - 1)]

\* the permutation that sorts a list of distinct entries into decreasing order:
\* position i goes to the rank of its entry
SortingPermutation(c) ==
    [i \in DOMAIN c |-> Cardinality({j \in DOMAIN c : c[j] >= c[i]})]

\* the orbit of i under the permutation
RECURSIVE Orbit(_, _, _)
Orbit(perm, i, seen) ==
    IF i \in seen THEN seen ELSE Orbit(perm, perm[i], seen \cup {i})

\* the sign of a permutation of n points with m cycles is (-1)^(n - m)
PermutationSign(perm) ==
    LET cycles == {Orbit(perm, i, {}) : i \in DOMAIN perm}
    IN  IF (Cardinality(DOMAIN perm) - Cardinality(cycles)) % 2 = 0 THEN 1 ELSE -1

StraightenedRight(gamma, out) ==
    LET c == Combined(gamma)
        mu == PadTo(out.index, Len(gamma))
    IN  IF (\E i \in DOMAIN c : c[i] < 0) \/ (\E i, j \in DOMAIN c : i # j /\ c[i] = c[j])
        THEN out.coeff = 0
        ELSE /\ out.coeff = PermutationSign(SortingPermutation(c))
             /\ out.coeff = MinusOneTo(Cardinality(
                    {ij \in (DOMAIN c) \X (DOMAIN c) : ij[1] < ij[2] /\ c[ij[1]] < c[ij[2]]}))
             /\ Len(out.index) <= Len(gamma)
             /\ \A i \in 1..(Len(gamma) - 1) : mu[i] + (Len(gamma) - i) > mu[i + 1] + (Len(gamma) - i - 1)
             /\ {mu[i] + (Len(gamma) - i) : i \in 1..Len(gamma)} = Range(c)
             /\ is_weakly_decreasing(out.index)
             /\ \A i \in DOMAIN out.index : out.index[i] > 0

\* C7: straighten(gamma) is zero exactly when gamma + rho has a negative or a
\* repeated entry; otherwise it is sign times the basis element indexed by
\* sort_decreasing(gamma + rho) - rho, a partition, the sign being that of the
\* sorting permutation; straighten([2,1,3]) = -s[2,2,2].
C7_Straighten ==
    pc = "done" =>
        /\ StraightenedRight(input.gamma, output)
        /\ (input.gamma = <<2, 1, 3>> => output = [coeff |-> -1, index |-> <<2, 2, 2>>])

C7_Witness ==
    /\ pc = "done"
    /\ input.gamma = <<2, 1, 3>>
    /\ output = [coeff |-> -1, index |-> <<2, 2, 2>>]

\* C8: straightening the index of a non-zero straightened result returns the
\* basis element at that index with sign +1.
C8_Idempotent ==
    pc = "done_again" => output = [coeff |-> 1, index |-> input.gamma]

C8_Witness ==
    /\ pc = "done_again"
    /\ input.first # input.gamma
    /\ Len(input.gamma) >= 2
    /\ output = [coeff |-> 1, index |-> input.gamma]

(***************************************************************************)
(* Claims about the raising operator algebra.                              *)
(***************************************************************************)
\* the zero-padded entry-wise sum of two indices
PaddedSum(a, b) ==
    [i \in 1..(IF Len(a) >= Len(b) THEN Len(a) ELSE Len(b)) |->
        (IF i <= Len(a) THEN a[i] ELSE 0) + (IF i <= Len(b) THEN b[i] ELSE 0)]

\* the complement of the ideal, listed in increasing order of (i, j)
RECURSIVE LexOrder(_)
LexOrder(S) ==
    IF S = {} THEN <<>>
    ELSE LET least == CHOOSE x \in S : \A y \in S :
                        x[1] < y[1] \/ (x[1] = y[1] /\ x[2] <= y[2])
         IN  <<least>> \o LexOrder(S \ {least})

\* C9: the product of generators is commutative and associative and is the
\* generator at the zero-padded entry-wise sum; the Catalan operator product
\* does not depend on the order in which the complement's pairs are enumerated.
C9_MulCommutesAssociates ==
    /\ pc = "done" =>
          /\ output.ab = output.ba
          /\ output.ab_c = output.a_bc
          /\ output.ab = (PaddedSum(input.a, input.b) :> <<1>>)
          /\ output.ab_c = (PaddedSum(PaddedSum(input.a, input.b), input.c) :> <<1>>)
    /\ pc = "done_operator" =>
          output.op = CatalanOperator(LexOrder(complement(input.ri, input.n)))

C9_Witness ==
    /\ pc = "done"
    /\ Len(input.a) < Len(input.b)
    /\ Len(input.c) < Len(input.a)
    /\ output.ab = output.ba
    /\ output.ab_c = output.a_bc
    /\ output.ab = (PaddedSum(input.a, input.b) :> <<1>>)

(***************************************************************************)
(* Claims about HallLittlewoodVertexOperator.                              *)
(***************************************************************************)
\* the parts of an expression, outermost vertex operator first
RECURSIVE PartsOf(_)
PartsOf(expression) ==
    IF expression = <<>> THEN <<>>
    ELSE (IF expression[1].kind = "int" THEN <<expression[1].int>> ELSE expression[1].list)
            \o PartsOf(Tail(expression))

\* the creation operator was called once per part, last part first, each result
\* feeding the next call: the element is H_g1(H_g2(...H_gm(x)...))
ChainedInReverse ==
    /\ Len(calls) = Len(PartsOf(input.expression))
    /\ \A i \in DOMAIN calls : calls[i] = PartsOf(input.expression)[Len(calls) + 1 - i]
    /\ input_ = PartsOf(input.expression) \o input.x

C10_VertexChain ==
    /\ pc = "ValueError" =>
          (input.expression[todo].kind = "int" /\ input.expression[todo].int < 0)
    /\ pc = "done" => ChainedInReverse

C10_Witness ==
    /\ pc = "done"
    /\ Len(input.expression) = 2
    /\ input.expression[1].kind = "list"
    /\ Len(input.expression[1].list) = 2
    /\ Len(input.expression[2].list) = 2
    /\ input.expression[1].list # input.expression[2].list
    /\ input.expression[1].list[1] # input.expression[1].list[2]
    /\ ChainedInReverse


(***************************************************************************)
(* Claims about n_to_number_of_linked_partition_self_pairs.                *)
(***************************************************************************)
\* the partitions of n the loop has already left behind
SelfPairsProbed ==
    LET all == Partitions(input.n, input.n)
    IN  {all[i] : i \in 1..(Len(all) - Len(input.ps))}

\* C11: the count is the number of partitions p of n for which
\* row_col_to_skew_partition(p, p) succeeds; a candidate is dropped only on the
\* invalid-shape error (ValueError), any other error reaches the caller instead
\* of being handled.
C11_OnlyInvalidShapeHandled ==
    /\ output.count =
          Cardinality({p \in SelfPairsProbed : row_col_to_skew_partition(p, p).status = "ok"})
    /\ output.caught \subseteq {"ValueError"}


(***************************************************************************)
(* Claims about boundary and k_rim.                                        *)
(***************************************************************************)
\* C12: k_rim(ptn, k) runs from top-left to bottom-right: its first point is
\* (0, len(ptn)) and its last point is (ptn[0], 0), (0, 0) for the empty partition.
C12_RimTopLeftFirst ==
    pc = "done_k_rim" =>
        /\ output[1] = <<0, Len(input.ptn)>>
        /\ output[Len(output)] = <<Part(input.ptn, 0), 0>>

\* C13: boundary(ptn) has no two equal consecutive points, starts at the
\* bottom-right point (ptn[0], 0) and ends at the top-left point (0, len(ptn));
\* it is the single point (0, 0) for the empty partition.
C13_Boundary ==
    pc = "done_boundary" =>
        /\ \A i \in 1..(Len(output) - 1) : output[i] # output[i + 1]
        /\ output[1] = <<Part(input.ptn, 0), 0>>
        /\ output[Len(output)] = <<0, Len(input.ptn)>>
        /\ input.ptn = <<>> => output = << <<0, 0>> >>

C13_Witness ==
    /\ pc = "done_boundary"
    /\ input.ptn = <<3, 1, 1>>
    /\ output = << <<3, 0>>, <<3, 1>>, <<2, 1>>, <<1, 1>>, <<1, 2>>, <<1, 3>>, <<0, 3>> >>


(***************************************************************************)
(* Claims about get_k_irreducible_partition_lists.                         *)
(***************************************************************************)
RECURSIVE Factorial(_)
Factorial(n) == IF n <= 1 THEN 1 ELSE n * Factorial(n - 1)

\* the size of the largest partition with at most k-i rows of length i
RECURSIVE LargestIrreducibleSize(_, _)
LargestIrreducibleSize(k, i) ==
    IF i >= k THEN 0 ELSE i * (k - i) + LargestIrreducibleSize(k, i + 1)

\* every k-bounded partition small enough to be k-irreducible, and one size more
KBoundedCandidates(k) == PartitionsUpTo(LargestIrreducibleSize(k, 1) + 1, k)

\* C14: get_k_irreducible_partition_lists(k), k >= 1, returns exactly k! pairwise
\* distinct lists, each weakly decreasing with positive entries, k-bounded and
\* k-irreducible (at most k-i rows of length i for 1 <= i < k, none of length
\* >= k), and every k-irreducible partition is among them.
C14_IrreduciblePartitions ==
    pc = "done" =>
        LET ptns == output.k_irr_ptns
            k == input
        IN  /\ Len(ptns) = Factorial(k)
            /\ \A a, b \in DOMAIN ptns : a # b => ptns[a] # ptns[b]
            /\ \A a \in DOMAIN ptns :
                  /\ is_weakly_decreasing(ptns[a])
                  /\ \A r \in DOMAIN ptns[a] : ptns[a][r] >= 1 /\ ptns[a][r] < k
                  /\ \A i \in 1..(k - 1) :
                        Cardinality({r \in DOMAIN ptns[a] : ptns[a][r] = i}) <= k - i
                  /\ is_k_bounded(ptns[a], k)
                  /\ is_k_irreducible(ptns[a], k)
            /\ \A p \in KBoundedCandidates(k) : is_k_irreducible(p, k) => p \in Range(ptns)

C14_Witness ==
    /\ pc = "done"
    /\ input = 4
    /\ Len(output.k_irr_ptns) = 24
    /\ <<3, 2, 2, 1, 1, 1>> \in Range(output.k_irr_ptns)
    /\ <<2, 1>> \in Range(output.k_irr_ptns)


(***************************************************************************)
(* Further claims about the bump-path machine.                             *)
(***************************************************************************)
\* the routine has come to an end, by returning or by raising
BumpTerminated == pc \in {"done", "TypeError"}

\* C15: bump_path terminates on every input: bump_path_piece eventually signals
\* is_end, and hence skew_partition_to_selected_rows terminates too.
C15_BumpPathTerminates ==
    (entry \in {"bump_path", "skew_partition_to_selected_rows"}) ~> BumpTerminated

\* the rows above the top cell of the leftmost column of row r that are not blocked
UnblockedAbove(s, r, blocked) ==
    {x \in Rows(s) : x > top(s, left(s, r)) /\ x \notin blocked}

\* C16: bump_path_piece(sp, r, B) signals is_end or returns a row index greater
\* than r, not in B and at most the last row index; it signals is_end when no
\* unblocked row lies above the top cell of the leftmost column of row r (row 0 of
\* [[1],[]], [[2],[]], [[1,1],[]]), and from row 0 of [[3,2,1],[1]] it returns row 2.
C16_BumpPathPiece ==
    (entry = "bump_path_piece" /\ pc = "done") =>
        /\ \/ piece.is_end
           \/ /\ piece.row > row_index
              /\ piece.row \notin blocked_rows
              /\ piece.row <= NumRows(sp) - 1
        /\ UnblockedAbove(sp, row_index, blocked_rows) = {} => piece.is_end
        /\ (sp = Skew(<<3, 2, 1>>, <<1>>) /\ row_index = 0 /\ blocked_rows = {})
              => piece = [row |-> 2, is_end |-> FALSE]

\* the rows skew_partition_to_selected_rows has run bump_path from
StartedRows == {r \in Rows(sp) : r < row_index \/ (r = row_index /\ pc # "for_row")}

\* C17: skew_partition_to_selected_rows gets through all the rows, and then the
\* rows never added to the global blocked set are the rows that started a bump
\* path, and this set (all rows minus the blocked set) is what is returned.
C17_SelectedAreNeverBlocked ==
    (entry = "skew_partition_to_selected_rows")
        ~> (/\ pc = "done"
            /\ Rows(sp) \ blocked_rows = StartedRows
            /\ selected_rows = Sorted(Rows(sp) \ blocked_rows))


(***************************************************************************)
(* Claims about indexed_root_ideal_to_catalan_function.                    *)
(***************************************************************************)
\* the terms of op whose raised index straightens to the partition p
TermsStraightenedTo(op, ptn, p) ==
    {seq \in DOMAIN op :
        LET st == straighten(raise_func(seq, ptn))
        IN  st.coeff # 0 /\ st.index = p}

\* the coefficients of the terms in seqs, each with the sign of its straightening
RECURSIVE SumSigned(_, _, _)
SumSigned(op, ptn, seqs) ==
    IF seqs = {} THEN <<>>
    ELSE LET seq == CHOOSE q \in seqs : TRUE
             sign == straighten(raise_func(seq, ptn)).coeff
         IN  PolyAdd(PolyMul(<<sign>>, op[seq]), SumSigned(op, ptn, seqs \ {seq}))

\* op applied with every raised index put through the straightening rule
StraightenedCall(op, ptn) ==
    LET keys == {straighten(raise_func(seq, ptn)).index : seq \in DOMAIN op}
        coeff(p) == SumSigned(op, ptn, TermsStraightenedTo(op, ptn, p))
        support == {p \in keys : coeff(p) # <<>>}
    IN  [p \in support |-> coeff(p)]

=============================================================================
